---- MODULE Spec2Model ----
(***************************************************************************)
(* The cover-letter designer of src/streamlit_app.py: the PDF engine       *)
(* generate_pdf and the Streamlit script around it (form, submit handler,  *)
(* session state, output section).  The file holds two revisions of the    *)
(* script, lines 13-135 and lines 136-224; a session runs one of them.     *)
(*                                                                         *)
(* A Python str is a sequence of one-character strings.  Every script run  *)
(* (a submit, an edit of the text area, a plain rerun) is one action.      *)
(***************************************************************************)
EXTENDS Integers, Sequences, FiniteSets, TLC

\* ------------------------------------------------------------ characters
\* Code points outside ASCII are written by name.
NL == "\n"
LSQUO == "U+2018"
RSQUO == "U+2019"
LDQUO == "U+201C"
RDQUO == "U+201D"
NDASH == "U+2013"
MDASH == "U+2014"
HELLIP == "U+2026"
EACUTE == "U+00E9"
EACUTE_CAP == "U+00C9"

\* The typographic punctuation the specification's sanitizer is about.
Typographic == {LSQUO, RSQUO, LDQUO, RDQUO, NDASH, MDASH, HELLIP}

\* ------------------------------------------------------------ string literals
\* --program--
S_HiringManager ==
    <<"H", "i", "r", "i", "n", "g", " ", "M", "a", "n", "a", "g", "e", "r">>
S_Name ==
    <<"N", "a", "m", "e">>
S_None ==
    <<"N", "o", "n", "e">>
S_Template1 ==
    <<"T", "e", "m", "p", "l", "a", "t", "e", " ", "1">>
S_CoverLetterSuffix ==
    <<"_", "C", "o", "v", "e", "r", "L", "e", "t", "t", "e", "r", ".", "p", "d", "f">>
S_CoverLetterPdf ==
    <<"C", "o", "v", "e", "r", "L", "e", "t", "t", "e", "r", ".", "p", "d", "f">>
S_PersonalDetails ==
    <<"P", "e", "r", "s", "o", "n", "a", "l", " ", "d", "e", "t", "a", "i", "l", "s">>
S_ContactInfo ==
    <<"C", "o", "n", "t", "a", "c", "t", " ", "I", "n", "f", "o">>
S_Email ==
    <<"E", "m", "a", "i", "l", ":">>
S_Phone ==
    <<"P", "h", "o", "n", "e", ":">>
S_Address ==
    <<"A", "d", "d", "r", "e", "s", "s", ":">>
S_Style1 ==
    <<"T", "e", "m", "p", "l", "a", "t", "e", " ", "1", " ", "-", " ", "S", "i", "d", "e", "b", "a", "r", " ", "B", "o", "l", "d">>
S_Style2 ==
    <<"T", "e", "m", "p", "l", "a", "t", "e", " ", "2", " ", "-", " ", "S", "i", "d", "e", "b", "a", "r", " ", "M", "i", "n", "i", "m", "a", "l">>
S_Teal ==
    <<"T", "e", "a", "l">>
S_ForestGreen ==
    <<"F", "o", "r", "e", "s", "t", " ", "G", "r", "e", "e", "n">>
S_NavyBlue ==
    <<"N", "a", "v", "y", " ", "B", "l", "u", "e">>
S_Burgundy ==
    <<"B", "u", "r", "g", "u", "n", "d", "y">>
S_Charcoal ==
    <<"C", "h", "a", "r", "c", "o", "a", "l">>
S_JaneFitz ==
    <<"J", "a", "n", "e", " ", "F", "i", "t", "z">>
S_JaneEmail ==
    <<"j", "a", "n", "e", "@", "e", "x", "a", "m", "p", "l", "e", ".", "c", "o", "m">>
S_JanePhone ==
    <<"(", "2", "2", "2", ")", " ", "3", "4", "5", "-", "6", "7", "8", "9">>
S_JaneAddress ==
    <<"S", "c", "r", "a", "n", "t", "o", "n", ",", " ", "P", "A">>
\* --sample--
S_AlB ==
    <<"A", "l", " ", "B">>
S_QA ==
    <<"Q", "A">>
S_Acme ==
    <<"A", "c", "m", "e">>
S_Dear ==
    <<"D", "e", "a", "r">>
S_Im ==
    <<"I", RSQUO, "m">>
S_Hi ==
    <<"H", "i">>
S_Url ==
    <<"l", "i", "/", "i", "n", "/", "j", "f">>
S_LinkedIn ==
    <<"L", "i", "n", "k", "e", "d", "I", "n">>
S_teal ==
    <<"t", "e", "a", "l">>
S_Purple ==
    <<"P", "u", "r", "p", "l", "e">>
S_template1 ==
    <<"t", "e", "m", "p", "l", "a", "t", "e", " ", "1">>
S_Template10 ==
    <<"T", "e", "m", "p", "l", "a", "t", "e", " ", "1", "0">>
S_Template ==
    <<"T", "e", "m", "p", "l", "a", "t", "e">>
S_xTemplate1x ==
    <<"x", "T", "e", "m", "p", "l", "a", "t", "e", " ", "1", "x">>
S_Traditional ==
    <<"T", "r", "a", "d", "i", "t", "i", "o", "n", "a", "l">>
S_Template2 ==
    <<"T", "e", "m", "p", "l", "a", "t", "e", " ", "2">>
S_Quote ==
    <<LDQUO, "A", NDASH, "B", HELLIP, RDQUO>>
S_Rene ==
    <<"R", "e", "n", EACUTE>>
S_OBrien ==
    <<"O", RSQUO, "B", "r", "i", "e", "n">>
MonthName ==
    <<<<"J", "a", "n", "u", "a", "r", "y">>,
      <<"F", "e", "b", "r", "u", "a", "r", "y">>,
      <<"M", "a", "r", "c", "h">>,
      <<"A", "p", "r", "i", "l">>,
      <<"M", "a", "y">>,
      <<"J", "u", "n", "e">>,
      <<"J", "u", "l", "y">>,
      <<"A", "u", "g", "u", "s", "t">>,
      <<"S", "e", "p", "t", "e", "m", "b", "e", "r">>,
      <<"O", "c", "t", "o", "b", "e", "r">>,
      <<"N", "o", "v", "e", "m", "b", "e", "r">>,
      <<"D", "e", "c", "e", "m", "b", "e", "r">>>>
LowerCase ==
    <<"a", "b", "c", "d", "e", "f", "g", "h", "i", "j", "k", "l", "m", "n", "o", "p", "q", "r", "s", "t", "u", "v", "w", "x", "y", "z">>
UpperCase ==
    <<"A", "B", "C", "D", "E", "F", "G", "H", "I", "J", "K", "L", "M", "N", "O", "P", "Q", "R", "S", "T", "U", "V", "W", "X", "Y", "Z">>
DigitChar ==
    <<"0", "1", "2", "3", "4", "5", "6", "7", "8", "9">>

\* ------------------------------------------------------------ Python values
\* None, as returned by dict.get for a missing key: no str equals it.
PyNone == <<"<NoneType>">>

\* The empty dict {}.
EmptyDict == [k \in {} |-> <<>>]

\* d.get(k, default)
DictGet(d, k, default) == IF k \in DOMAIN d THEN d[k] ELSE default

\* The text an f-string puts for a value: str(None) is "None".
Fmt(v) == IF v = PyNone THEN S_None ELSE v

\* sub in s
Contains(sub, s) ==
    \E i \in 0..(Len(s) - Len(sub)) : SubSeq(s, i + 1, i + Len(sub)) = sub

\* s.replace(old, new) for one-character old and new
StrReplace(s, old, new) == [i \in 1..Len(s) |-> IF s[i] = old THEN new ELSE s[i]]

UpperChar(c) ==
    IF c = EACUTE THEN EACUTE_CAP
    ELSE IF \E i \in 1..Len(LowerCase) : LowerCase[i] = c
         THEN UpperCase[CHOOSE i \in 1..Len(LowerCase) : LowerCase[i] = c]
         ELSE c

\* s.upper()
StrUpper(s) == [i \in 1..Len(s) |-> UpperChar(s[i])]

\* s.split("\n")
RECURSIVE SplitFrom(_, _, _)
SplitFrom(s, i, cur) ==
    IF i > Len(s) THEN <<cur>>
    ELSE IF s[i] = NL THEN <<cur>> \o SplitFrom(s, i + 1, <<>>)
         ELSE SplitFrom(s, i + 1, Append(cur, s[i]))

Lines(s) == SplitFrom(s, 1, <<>>)

\* Whether the core font's latin-1 encoding can hold the text: FPDF raises
\* FPDFUnicodeEncodingException for a character it cannot encode.
Latin1(s) == \A i \in 1..Len(s) : s[i] \notin Typographic

\* ------------------------------------------------------------ dates
IsLeap(y) == (y % 4 = 0 /\ y % 100 # 0) \/ y % 400 = 0

DaysIn(y, m) ==
    IF m = 2 THEN (IF IsLeap(y) THEN 29 ELSE 28)
    ELSE IF m \in {4, 6, 9, 11} THEN 30 ELSE 31

\* The day after date.
NextDay(date) ==
    IF date.d < DaysIn(date.y, date.m) THEN [date EXCEPT !.d = @ + 1]
    ELSE IF date.m < 12 THEN [y |-> date.y, m |-> date.m + 1, d |-> 1]
         ELSE [y |-> date.y + 1, m |-> 1, d |-> 1]

Digit(n) == DigitChar[n + 1]

\* %d: day of the month, zero-padded to two digits
Pad2(n) == <<Digit((n \div 10) % 10), Digit(n % 10)>>

StrftimeUnpadded(date) ==
    MonthName[date.m] \o <<" ">>
        \o (IF date.d < 10 THEN <<Digit(date.d)>> ELSE Pad2(date.d))
        \o <<",", " ">> \o Pad2(date.y \div 100) \o Pad2(date.y % 100)

\* date.strftime('%B %d, %Y')
Strftime(date) ==
    MonthName[date.m] \o <<" ">> \o Pad2(date.d) \o <<",", " ">>
        \o Pad2(date.y \div 100) \o Pad2(date.y % 100)

\* ------------------------------------------------------------ PDF engine
\* The colors table of generate_pdf.
colors ==
    (S_Teal :> <<52, 165, 173>>) @@ (S_ForestGreen :> <<34, 139, 34>>)
        @@ (S_NavyBlue :> <<0, 51, 102>>) @@ (S_Burgundy :> <<128, 0, 32>>)
        @@ (S_Charcoal :> <<54, 69, 79>>)

AccentBlackDefault(color_name) == DictGet(colors, color_name, <<0, 0, 0>>)

\* r, g, b = colors.get(color_name, (52, 165, 173))
Accent(color_name) == DictGet(colors, color_name, <<52, 165, 173>>)

NameOfOrNone(details) == Fmt(DictGet(details, "name", PyNone))

\* name = details.get('name', 'Name')
NameOf(details) == DictGet(details, "name", S_Name)

IsTemplate1Exact(template) == template = S_Style1

\* "Template 1" in template
IsTemplate1(template) == Contains(S_Template1, template)

\* details.get(k) inside an f-string
Field(details, k) == Fmt(DictGet(details, k, PyNone))

ContactBoldWithLinkedIn(details) ==
    S_Email \o <<NL>> \o Field(details, "email") \o <<NL, NL>>
        \o S_Phone \o <<NL>> \o Field(details, "phone") \o <<NL, NL>>
        \o S_Address \o <<NL>> \o Field(details, "address")
        \o (IF "linkedinUrl" \in DOMAIN details
            THEN <<NL, NL>> \o S_LinkedIn \o <<":", NL>> \o details["linkedinUrl"]
            ELSE <<>>)

\* f"Email:\n{email}\n\nPhone:\n{phone}\n\nAddress:\n{address}"
ContactBold(details) ==
    S_Email \o <<NL>> \o Field(details, "email") \o <<NL, NL>>
        \o S_Phone \o <<NL>> \o Field(details, "phone") \o <<NL, NL>>
        \o S_Address \o <<NL>> \o Field(details, "address")

\* f"{email}\n{phone}\n{address}"
ContactMinimal(details) ==
    Field(details, "email") \o <<NL>> \o Field(details, "phone")
        \o <<NL>> \o Field(details, "address")

\* The text-drawing calls of the Sidebar-Bold branch, in order.
DrawBold(details, content) ==
    << [part |-> "name", text |-> StrUpper(NameOf(details))],
       [part |-> "heading", text |-> S_PersonalDetails],
       [part |-> "contact", text |-> ContactBold(details)],
       [part |-> "body", text |-> content] >>

\* The text-drawing calls of the Sidebar-Minimal branch, in order.
DrawMinimal(details, content) ==
    << [part |-> "name", text |-> NameOf(details)],
       [part |-> "heading", text |-> S_ContactInfo],
       [part |-> "contact", text |-> ContactMinimal(details)],
       [part |-> "body", text |-> content] >>

\* The calls made before the library raises: all of them when every text
\* can be encoded, else those up to and including the first that cannot.
Drawn(calls) ==
    LET bad == {i \in 1..Len(calls) : ~Latin1(calls[i].text)}
    IN  IF bad = {} THEN calls
        ELSE SubSeq(calls, 1, CHOOSE i \in bad : \A j \in bad : i <= j)

NoPdf == [invoked |-> FALSE]

\* generate_pdf(template, color_name, details, content): the layout chosen,
\* the accent color, the texts handed to cell/multi_cell, and whether the
\* call raised instead of returning the bytes.
generate_pdf(template, color_name, details, content) ==
    LET bold  == IsTemplate1(template)
        calls == IF bold THEN DrawBold(details, content)
                 ELSE DrawMinimal(details, content)
    IN  [invoked  |-> TRUE,
         template |-> template,
         color    |-> color_name,
         details  |-> details,
         layout   |-> IF bold THEN "SidebarBold" ELSE "SidebarMinimal",
         accent   |-> Accent(color_name),
         drawn    |-> Drawn(calls),
         raised   |-> \E i \in 1..Len(calls) : ~Latin1(calls[i].text)]

\* The text a render handed to the library for one part of the page, or
\* None when the render stopped before that part.
TextOf(p, part) ==
    IF \E i \in 1..Len(p.drawn) : p.drawn[i].part = part
    THEN p.drawn[CHOOSE i \in 1..Len(p.drawn) : p.drawn[i].part = part].text
    ELSE PyNone

\* ------------------------------------------------------------ bounds
\* How many times the calendar day may change during a session.
MaxTicks == 2

\* ------------------------------------------------------------ state
VARIABLES
    rev,          \* which revision of the script the session runs: 1 or 2
    today,        \* datetime.now(), as a calendar date
    ticks,        \* how many times the day has changed
    form,         \* the values of the form's widgets as last submitted
    full_letter,  \* st.session_state["full_letter"]
    data,         \* st.session_state["data"]
    edited,       \* the value the "Edit text:" text area holds, PyNone when it holds none
    generated,    \* the inputs of the last successful generation (history)
    run,          \* what the last script run did
    pdf,          \* the last script run's call of generate_pdf, NoPdf when it made none
    download,     \* the download button the last script run offered
    args          \* the arguments of a direct call of generate_pdf

vars ==
    <<rev, today, ticks, form, full_letter, data, edited, generated, run, pdf,
      download, args>>

\* ------------------------------------------------------------ inputs
\* The form as first displayed: the defaults of the text inputs and the
\* first option of each selectbox.
FormDefault ==
    [name |-> S_JaneFitz, email |-> S_JaneEmail, phone |-> S_JanePhone,
     address |-> S_JaneAddress, pos |-> <<>>, comp |-> <<>>, skls |-> <<>>,
     style |-> S_Style1, color |-> S_Teal]

\* The options of the Style selectbox.
StyleOptions == {S_Style1, S_Style2}

\* The options of the Color selectbox.
ColorOptions == {S_Teal, S_ForestGreen, S_NavyBlue, S_Burgundy, S_Charcoal}

\* A submitted form: the contact fields keep their defaults.
FormOf(name, pos, comp, style, color) ==
    [name |-> name, email |-> S_JaneEmail, phone |-> S_JanePhone,
     address |-> S_JaneAddress, pos |-> pos, comp |-> comp, skls |-> <<>>,
     style |-> style, color |-> color]

\* What the user may submit: two complete forms, one without a Position
\* and one without a Company.
FormInputs ==
    {FormOf(S_JaneFitz, S_QA, S_Acme, S_Style1, S_Teal),
     FormOf(S_AlB, S_QA, S_Acme, S_Style2, S_Burgundy),
     FormOf(S_AlB, <<>>, S_Acme, S_Style1, S_Teal),
     FormOf(S_JaneFitz, S_QA, <<>>, S_Style2, S_Burgundy)}

\* What the chat-completion call may do: raise, or return a text.
LlmOutcomes ==
    {[ok |-> FALSE, content |-> <<>>]}
        \cup {[ok |-> TRUE, content |-> c] : c \in {S_Dear, S_Im}}

\* What the user may type into the text area showing text.
Edits(text) == {text \o <<"!">>, S_Hi, <<>>}

\* The day the session starts.
StartDates == {[y |-> 2025, m |-> 3, d |-> 5], [y |-> 2025, m |-> 12, d |-> 31]}

NoDownload == [offered |-> FALSE]

NoRun ==
    [kind |-> "none", warned |-> FALSE, llmCalled |-> FALSE, llmFailed |-> FALSE,
     shown |-> "none", uncaught |-> FALSE, area |-> FALSE]

NoGeneration == [made |-> FALSE]

NoArgs == [given |-> FALSE]

\* ------------------------------------------------------------ the script
\* f"Hiring Manager\n{comp}\n\n{date}\n\n{content}"
Letter(comp, date, content) ==
    S_HiringManager \o <<NL>> \o comp \o <<NL, NL>> \o date \o <<NL, NL>> \o content

\* The record the handler stores in st.session_state.data.
DataOf(f) ==
    [k \in {"name", "email", "phone", "address", "tmpl", "clr"} |->
        CASE k = "name" -> f.name
          [] k = "email" -> f.email
          [] k = "phone" -> f.phone
          [] k = "address" -> f.address
          [] k = "tmpl" -> f.style
          [] k = "clr" -> f.color]

\* What a handler leaves: the session state, the message it showed
\* (st.warning, st.error) and whether an exception it did not catch ended
\* the script run.
Outcome(letter, d, warned, called, failed, shown, aborted) ==
    [full_letter |-> letter, data |-> d, warned |-> warned, llmCalled |-> called,
     llmFailed |-> failed, shown |-> shown, aborted |-> aborted]

\* The second revision's "if st.form_submit_button(...):" block: no
\* validation and no try/except around the call.
Handler2(f, llm) ==
    IF llm.ok
    THEN Outcome(Letter(f.comp, Strftime(today), llm.content), DataOf(f),
                 FALSE, TRUE, FALSE, "none", FALSE)
    ELSE Outcome(full_letter, data, FALSE, TRUE, TRUE, "none", TRUE)

Handler1NoCatch(f, llm) ==
    IF f.pos = <<>> \/ f.comp = <<>>
    THEN Outcome(full_letter, data, TRUE, FALSE, FALSE, "warning", FALSE)
    ELSE Handler2(f, llm)

Handler1DataFirst(f, llm) ==
    IF f.pos = <<>> \/ f.comp = <<>>
    THEN Outcome(full_letter, data, TRUE, FALSE, FALSE, "warning", FALSE)
    ELSE IF llm.ok
         THEN Outcome(Letter(f.comp, Strftime(today), llm.content), DataOf(f),
                      FALSE, TRUE, FALSE, "none", FALSE)
         ELSE Outcome(full_letter, DataOf(f), FALSE, TRUE, TRUE, "error", FALSE)

\* The first revision's "if submit_button:" block: validation, the call
\* inside try/except, the two stores on success.
Handler1(f, llm) ==
    IF f.pos = <<>> \/ f.comp = <<>>
    THEN Outcome(full_letter, data, TRUE, FALSE, FALSE, "warning", FALSE)
    ELSE IF llm.ok
         THEN Outcome(Letter(f.comp, Strftime(today), llm.content), DataOf(f),
                      FALSE, TRUE, FALSE, "none", FALSE)
         ELSE Outcome(full_letter, data, FALSE, TRUE, TRUE, "error", FALSE)

\* A script run without a submit: no handler runs.
NoHandler ==
    Outcome(full_letter, data, FALSE, FALSE, FALSE, "none", FALSE)

\* The value st.text_area returns in a run that shows letter: what the
\* widget holds when it already exists with this default, else the default.
AreaValue(letter, held) ==
    IF held # PyNone /\ letter = full_letter THEN held ELSE letter

\* The first revision's output section, for the session state h the
\* handler left, the form values f and the text the widget holds.
Output1(h, f, held) ==
    IF h.full_letter = <<>>
    THEN [area |-> FALSE, edited |-> PyNone, pdf |-> NoPdf, keyError |-> FALSE,
          download |-> NoDownload]
    ELSE LET text == AreaValue(h.full_letter, held)
             p == generate_pdf(h.data["tmpl"], h.data["clr"], h.data, text)
         IN  IF h.data = EmptyDict
             THEN [area |-> TRUE, edited |-> text, pdf |-> NoPdf,
                   keyError |-> FALSE, download |-> NoDownload]
             ELSE [area |-> TRUE, edited |-> text, pdf |-> p, keyError |-> FALSE,
                   download |->
                       IF p.raised THEN NoDownload
                       ELSE [offered |-> TRUE,
                             file_name |-> StrReplace(f.name, " ", "_")
                                               \o S_CoverLetterSuffix,
                             mime |-> "application/pdf"]]

\* The second revision's output section.
Output2(h, f, held) ==
    IF h.full_letter = <<>>
    THEN [area |-> FALSE, edited |-> PyNone, pdf |-> NoPdf, keyError |-> FALSE,
          download |-> NoDownload]
    ELSE LET text == AreaValue(h.full_letter, held)
             p == generate_pdf(h.data["tmpl"], h.data["clr"], h.data, text)
         IN  IF "tmpl" \notin DOMAIN h.data \/ "clr" \notin DOMAIN h.data
             THEN [area |-> TRUE, edited |-> text, pdf |-> NoPdf,
                   keyError |-> TRUE, download |-> NoDownload]
             ELSE [area |-> TRUE, edited |-> text, pdf |-> p, keyError |-> FALSE,
                   download |->
                       IF p.raised THEN NoDownload
                       ELSE [offered |-> TRUE, file_name |-> S_CoverLetterPdf,
                             mime |-> "application/pdf"]]

Output(h, f, held) == IF rev = 1 THEN Output1(h, f, held) ELSE Output2(h, f, held)

\* One run of the script: the handler's outcome h, then the output section
\* unless the handler's exception ended the run.  The framework displays an
\* exception the script does not catch (uncaught).  keep: whether the
\* framework keeps the text area's value over a run that ended before the
\* widget was reached.
Script(kind, f, h, held, keep) ==
    \E o \in {Output(h, f, held)} :
        /\ form' = f
        /\ full_letter' = h.full_letter
        /\ data' = h.data
        /\ IF h.aborted
           THEN /\ edited' = IF keep THEN edited ELSE PyNone
                /\ pdf' = NoPdf
                /\ download' = NoDownload
                /\ run' = [kind |-> kind, warned |-> h.warned,
                           llmCalled |-> h.llmCalled, llmFailed |-> h.llmFailed,
                           shown |-> h.shown, uncaught |-> TRUE,
                           area |-> FALSE]
           ELSE /\ edited' = o.edited
                /\ pdf' = o.pdf
                /\ download' = o.download
                /\ run' = [kind |-> kind, warned |-> h.warned,
                           llmCalled |-> h.llmCalled, llmFailed |-> h.llmFailed,
                           shown |-> h.shown,
                           uncaught |-> o.keyError \/ (o.pdf.invoked /\ o.pdf.raised),
                           area |-> o.area]

\* ------------------------------------------------------------ actions
Init ==
    /\ rev \in {1, 2}
    /\ today \in StartDates
    /\ ticks = 0
    /\ form = FormDefault
    /\ full_letter = <<>>
    /\ data = EmptyDict
    /\ edited = PyNone
    /\ generated = NoGeneration
    /\ run = NoRun
    /\ pdf = NoPdf
    /\ download = NoDownload
    /\ args = NoArgs

\* The user presses the form's submit button.
Submit ==
    \E f \in FormInputs, llm \in LlmOutcomes :
        \E h \in {IF rev = 1 THEN Handler1(f, llm) ELSE Handler2(f, llm)} :
            /\ \E keep \in (IF h.aborted THEN BOOLEAN ELSE {TRUE}) :
                   Script("submit", f, h, edited, keep)
            /\ generated' =
                   IF h.llmCalled /\ ~h.llmFailed
                   THEN [made |-> TRUE, form |-> f, date |-> today,
                         content |-> llm.content]
                   ELSE generated
            /\ UNCHANGED <<rev, today, ticks, args>>

\* The user changes the text in the text area, which reruns the script.
Edit ==
    /\ run.area
    /\ \E t \in Edits(full_letter) :
           Script("edit", form, NoHandler, t, TRUE)
    /\ UNCHANGED <<rev, today, ticks, generated, args>>

\* The script reruns with nothing submitted or typed (the download button
\* was pressed).
Rerun ==
    /\ Script("rerun", form, NoHandler, edited, TRUE)
    /\ UNCHANGED <<rev, today, ticks, generated, args>>

\* Midnight passes.
Tick ==
    /\ ticks < MaxTicks
    /\ today' = NextDay(today)
    /\ ticks' = ticks + 1
    /\ UNCHANGED <<rev, form, full_letter, data, edited, generated, run, pdf,
                   download, args>>

Next == Submit \/ Edit \/ Rerun \/ Tick

Spec == Init /\ [][Next]_vars

\* ------------------------------------------------------------ generate_pdf alone
\* A key a details dict does not hold.
Absent == <<"<absent>">>

\* The dict holding the given entries that are not Absent.
DetailsOf(n, e, p, a, l) ==
    LET vals == [name |-> n, email |-> e, phone |-> p, address |-> a,
                 linkedinUrl |-> l]
    IN  [k \in {x \in DOMAIN vals : vals[x] # Absent} |-> vals[k]]

TemplateInputs ==
    {S_Style1, S_Style2, <<>>, S_Template1, S_template1, S_Template10,
     S_xTemplate1x, S_Traditional, S_Template, S_Template2}

ColorInputs == ColorOptions \cup {<<>>, PyNone, S_teal, S_Purple}

DetailsInputs ==
    {DetailsOf(n, e, p, p, l) :
        n \in {Absent, <<>>, S_JaneFitz, S_Rene, S_OBrien},
        e \in {Absent, S_JaneEmail},
        p \in {Absent, S_JaneAddress},
        l \in {Absent, S_Url}}

ContentInputs == {<<>>, S_Dear, S_Quote}

InitPdf ==
    /\ rev = 1
    /\ today \in StartDates
    /\ ticks = 0
    /\ form = FormDefault
    /\ full_letter = <<>>
    /\ data = EmptyDict
    /\ edited = PyNone
    /\ generated = NoGeneration
    /\ run = NoRun
    /\ pdf = NoPdf
    /\ download = NoDownload
    /\ args \in [given : {TRUE}, template : TemplateInputs, color : ColorInputs,
                 details : DetailsInputs, content : ContentInputs]

\* generate_pdf is called with the arguments.
Call ==
    /\ args.given
    /\ ~pdf.invoked
    /\ pdf' = generate_pdf(args.template, args.color, args.details, args.content)
    /\ UNCHANGED <<rev, today, ticks, form, full_letter, data, edited, generated,
                   run, download, args>>

NextPdf == Call

SpecPdf == InitPdf /\ [][NextPdf]_vars

\* ------------------------------------------------------------ what the claims speak of
\* The number a string of decimal digits writes, -1 when it is not one.
RECURSIVE ParseNat(_)
ParseNat(s) ==
    IF s = <<>> THEN 0
    ELSE LET last == s[Len(s)]
             rest == ParseNat(SubSeq(s, 1, Len(s) - 1))
         IN  IF rest < 0 \/ ~\E n \in 0..9 : DigitChar[n + 1] = last THEN -1
             ELSE 10 * rest + (CHOOSE n \in 0..9 : DigitChar[n + 1] = last)

\* s is date written as full month name, zero-padded day, four-digit year.
StampIs(s, date) ==
    LET k == Len(MonthName[date.m])
    IN  /\ Len(s) = k + 9
        /\ SubSeq(s, 1, k) = MonthName[date.m]
        /\ SubSeq(s, k + 1, k + 1) = <<" ">>
        /\ ParseNat(SubSeq(s, k + 2, k + 3)) = date.d
        /\ SubSeq(s, k + 4, k + 5) = <<",", " ">>
        /\ ParseNat(SubSeq(s, k + 6, k + 9)) = date.y

\* s is some date written that way.
LooksLikeStamp(s) ==
    \E m \in 1..12, d \in 1..31 :
        LET k == Len(MonthName[m])
        IN  Len(s) = k + 9 /\ ParseNat(SubSeq(s, k + 6, k + 9)) >= 0
                /\ StampIs(s, [y |-> ParseNat(SubSeq(s, k + 6, k + 9)), m |-> m, d |-> d])

\* The date line of a letter laid out as the handler lays it out: heading,
\* company, blank, date.
HasDateStamp(text) ==
    /\ text # PyNone
    /\ Len(Lines(text)) >= 4
    /\ Lines(text)[1] = S_HiringManager
    /\ LooksLikeStamp(Lines(text)[4])

DateStamp(text) == Lines(text)[4]

\* The sanitizer of the specification: typographic quotes, dashes and the
\* ellipsis to their ASCII equivalents, every other character unchanged.
RECURSIVE Sanitize(_)
Sanitize(s) ==
    IF s = <<>> THEN <<>>
    ELSE (CASE Head(s) \in {LSQUO, RSQUO} -> <<"'">>
            [] Head(s) \in {LDQUO, RDQUO} -> <<"\"">>
            [] Head(s) \in {NDASH, MDASH} -> <<"-">>
            [] Head(s) = HELLIP -> <<".", ".", ".">>
            [] OTHER -> <<Head(s)>>) \o Sanitize(Tail(s))

\* How many times sub occurs in s.
Occurrences(sub, s) ==
    Cardinality({i \in 0..(Len(s) - Len(sub)) : SubSeq(s, i + 1, i + Len(sub)) = sub})

\* The documented palette.
PaletteOf(name) ==
    CASE name = S_Teal -> <<52, 165, 173>>
      [] name = S_ForestGreen -> <<34, 139, 34>>
      [] name = S_NavyBlue -> <<0, 51, 102>>
      [] name = S_Burgundy -> <<128, 0, 32>>
      [] name = S_Charcoal -> <<54, 69, 79>>
      [] OTHER -> <<52, 165, 173>>

\* A render that raised did so on the last text it handed to the library,
\* which the font cannot encode: nothing else makes generate_pdf raise.
RaisedOnlyOnText(p) ==
    p.raised <=> (p.drawn # <<>> /\ ~Latin1(p.drawn[Len(p.drawn)].text))

\* The text the profile holds for a contact field, "None" when it holds none.
Shown(details, k) == IF k \in DOMAIN details THEN details[k] ELSE S_None

\* ------------------------------------------------------------ C1
\* C1 as stated: when the content-producer call of a submit raises, the
\* error is caught above the call (by the handler's except clause, or by the
\* framework that runs the script) and shown, and generate_pdf is not invoked
\* in that run, whatever earlier submits left in the session state.
C1_NoRenderAfterFailure ==
    (run.kind = "submit" /\ run.llmFailed) =>
        /\ (run.shown = "error" \/ run.uncaught)
        /\ ~pdf.invoked

\* C1 amended: when the content-producer call of a submit raises, a message
\* is shown (st.error by the first revision's except clause; the second
\* revision does not catch it and the framework shows the exception),
\* full_letter and data stay as they were, and generate_pdf is invoked in
\* that run exactly when the first revision runs and an earlier successful
\* submit left a letter: it then renders that earlier letter's stored
\* profile and the text area's text, nothing of the failed call.
C1_FailureKeepsEarlierLetter ==
    /\ []((run.kind = "submit" /\ run.llmFailed) =>
            /\ run.llmCalled /\ ~run.warned
            /\ (rev = 1 => run.shown = "error")
            /\ (rev = 2 => run.shown = "none" /\ run.uncaught)
            /\ (pdf.invoked <=> (rev = 1 /\ full_letter # <<>>))
            /\ (pdf.invoked =>
                    /\ generated.made
                    /\ pdf.details = DataOf(generated.form)
                    /\ TextOf(pdf, "body") \in {PyNone, edited}))
    /\ [][(run'.kind = "submit" /\ run'.llmFailed) =>
            (full_letter' = full_letter /\ data' = data)]_vars

\* A failed submit whose run rendered the letter of an earlier submit.
C1_Witness ==
    /\ run.kind = "submit" /\ run.llmFailed /\ run.shown = "error"
    /\ pdf.invoked /\ ~pdf.raised
    /\ form # generated.form

\* ------------------------------------------------------------ C2
\* C2: generate_pdf resolves each of the five theme names to its documented
\* triple and every other name (the empty string, None, a name in another
\* case) to Teal's triple, and no color name makes the render raise: a
\* render raises only on a text the font cannot encode.
C2_AccentResolved ==
    pdf.invoked =>
        /\ pdf.accent = PaletteOf(args.color)
        /\ (args.color \notin ColorOptions => pdf.accent = <<52, 165, 173>>)
        /\ RaisedOnlyOnText(pdf)

\* A render given no color name (None) that returned with the Teal accent.
C2_Witness ==
    /\ pdf.invoked /\ args.given
    /\ args.color = PyNone
    /\ pdf.accent = <<52, 165, 173>>
    /\ ~pdf.raised

\* ------------------------------------------------------------ C3
\* C3: generate_pdf lays out exactly one of the two layouts: Sidebar-Bold
\* when the template identifier contains "Template 1", Sidebar-Minimal for
\* every other string (the empty string, unknown labels, other case), and
\* no template identifier makes the render raise.
C3_TemplateDispatch ==
    pdf.invoked =>
        /\ pdf.layout \in {"SidebarBold", "SidebarMinimal"}
        /\ (pdf.layout = "SidebarBold" <=> Occurrences(S_Template1, args.template) > 0)
        /\ (args.template \in {S_Style1, S_Template1, S_Template10, S_xTemplate1x}
                => pdf.layout = "SidebarBold")
        /\ (args.template \in {S_Style2, <<>>, S_template1, S_Traditional,
                              S_Template, S_Template2}
                => pdf.layout = "SidebarMinimal")
        /\ TextOf(pdf, "heading") \in
               {PyNone, IF pdf.layout = "SidebarBold" THEN S_PersonalDetails
                        ELSE S_ContactInfo}
        /\ RaisedOnlyOnText(pdf)

\* A render of the empty template identifier that returned the default
\* layout.
C3_Witness ==
    /\ pdf.invoked /\ args.given /\ ~pdf.raised
    /\ args.template = <<>>
    /\ pdf.layout = "SidebarMinimal"
    /\ TextOf(pdf, "heading") = S_ContactInfo

\* ------------------------------------------------------------ C4
\* C4 as stated: in every render the body text the layout draws is the
\* sanitized text (quotes, dashes and ellipsis replaced by ASCII), so it
\* holds none of the typographic characters.
C4_BodySanitized ==
    (pdf.invoked /\ TextOf(pdf, "body") # PyNone) =>
        /\ TextOf(pdf, "body") = Sanitize(edited)
        /\ \A i \in 1..Len(TextOf(pdf, "body")) :
               TextOf(pdf, "body")[i] \notin Typographic

C6_NameRendering ==
    pdf.invoked =>
        LET d == args.details
            n == IF "name" \in DOMAIN d THEN d["name"] ELSE <<"N", "a", "m", "e">>
            c == TextOf(pdf, "contact")
        IN  /\ pdf.layout = "SidebarMinimal" => TextOf(pdf, "name") = n
            /\ pdf.layout = "SidebarBold" =>
                   /\ Len(TextOf(pdf, "name")) = Len(n)
                   /\ \A i \in 1..Len(n) : TextOf(pdf, "name")[i] = UpperChar(n[i])
                   /\ (n = S_JaneFitz =>
                         TextOf(pdf, "name") = <<"J", "A", "N", "E", " ", "F", "I", "T", "Z">>)
                   /\ ("name" \notin DOMAIN d =>
                         TextOf(pdf, "name") = <<"N", "A", "M", "E">>)
            /\ (c # PyNone /\ pdf.layout = "SidebarMinimal") =>
                   Lines(c) = <<Shown(d, "email"), Shown(d, "phone"), Shown(d, "address")>>
            /\ (c # PyNone /\ pdf.layout = "SidebarBold") =>
                   Lines(c) = <<S_Email, Shown(d, "email"), <<>>,
                                S_Phone, Shown(d, "phone"), <<>>,
                                S_Address, Shown(d, "address")>>

\* A Sidebar-Bold render of a profile without a name or an email.
C6_Witness ==
    /\ pdf.invoked /\ args.given /\ ~pdf.raised
    /\ "name" \notin DOMAIN args.details
    /\ "email" \notin DOMAIN args.details
    /\ pdf.layout = "SidebarBold"
    /\ TextOf(pdf, "name") = <<"N", "A", "M", "E">>

C8_DownloadName ==
    download.offered =>
        /\ pdf.invoked
        /\ download.file_name =
               StrReplace(DictGet(pdf.details, "name", S_Name), " ", "_")
                   \o S_CoverLetterSuffix
        /\ download.mime = "application/pdf"

\* ------------------------------------------------------------ C9
\* C9 as stated: a submit with an empty Position or an empty Company shows
\* a warning, makes no content-producer call and leaves full_letter and
\* data as they were.
C9_EmptyFieldRejected ==
    [][(run'.kind = "submit" /\ (form'.pos = <<>> \/ form'.comp = <<>>)) =>
          /\ run'.warned /\ run'.shown = "warning"
          /\ ~run'.llmCalled
          /\ full_letter' = full_letter
          /\ data' = data]_vars

\* ------------------------------------------------------------ C10
\* C10: whenever full_letter is not empty, data holds name, email, phone,
\* address, tmpl and clr as the same successful generation stored them, and
\* generate_pdf is invoked only with that stored record, its tmpl and its
\* clr, never with the initial empty record.
C10_LetterHasData ==
    /\ full_letter # <<>> =>
           /\ generated.made
           /\ DOMAIN data = {"name", "email", "phone", "address", "tmpl", "clr"}
           /\ data["name"] = generated.form.name
           /\ data["email"] = generated.form.email
           /\ data["phone"] = generated.form.phone
           /\ data["address"] = generated.form.address
           /\ data["tmpl"] = generated.form.style
           /\ data["clr"] = generated.form.color
           /\ Lines(full_letter)[2] = generated.form.comp
           /\ full_letter =
                  S_HiringManager \o <<NL>> \o generated.form.comp \o <<NL, NL>>
                      \o DateStamp(full_letter) \o <<NL, NL>> \o generated.content
    /\ (pdf.invoked /\ run.kind # "none") =>
           /\ full_letter # <<>>
           /\ pdf.details = data
           /\ pdf.details # EmptyDict
           /\ pdf.template = data["tmpl"]
           /\ pdf.color = data["clr"]

\* A render of a stored letter after a later submit changed the form but
\* generated nothing.
C10_Witness ==
    /\ full_letter # <<>>
    /\ pdf.invoked
    /\ run.kind = "submit" /\ (run.warned \/ run.llmFailed)
    /\ form # generated.form
====
